---- MODULE Spec2Model ----
(***************************************************************************)
(* The in-memory customer datastore of customerio-backend                  *)
(* (datastore/datastore.go): the ingestion loop of datastore.New and the   *)
(* CRUD methods of *Datastore that serve.ListenAndServe calls.             *)
(*                                                                         *)
(* Go slices are 0-based: customerLinks holds 0-based positions and the    *)
(* customer at position p is customers[p + 1].                             *)
(***************************************************************************)
EXTENDS Integers, Sequences, FiniteSets, TLC

\* customers, customerLinks, processedEventsMap: the fields of the Datastore.
\* pc: "New" while New ranges over the channel, "Serve" once it has returned.
\* ingested: the records the channel has yielded so far, in order.
\* calls: the number of CRUD calls made.
\* last: the last step taken, with its arguments and what it returned.
\* ctx: what main has seen so far: the data file opened, stream.Process
\*      returned a channel, the context cancelled (now, and when New returned).
\* handlers: the request handlers that run a call statement by statement.
VARIABLES customers, customerLinks, processedEventsMap, pc, ingested, calls, last,
          ctx, handlers

vars == <<customers, customerLinks, processedEventsMap, pc, ingested, calls, last,
          ctx, handlers>>

\* ------------------------------------------------------------------ bounds
\* Records the channel yields before it is closed.
MaxRecords == 3
\* CRUD calls made by the serving layer.
MaxCalls == 4
\* Records of the input a served Registry was built from.
MaxServeInput == 2
MaxCustomers == 4

\* ------------------------------------------------------------------ inputs
\* Strings that are parsed are sequences of characters.
S1 == <<"1">>
S2 == <<"2">>
S01 == <<"0", "1">>
SBad == <<"x">>

Timestamps == {5, 10, 20}
RecordIDs == {"e1", "e2"}
EventNames == {"open"}

EmptyMap == [k \in {} |-> k]
Color(v) == [k \in {"color"} |-> v]
DataInputs == {Color("red"), Color("blue")}

Rec(id, type, name, user, ts, data) ==
    [ID |-> id, Type |-> type, Name |-> name, UserID |-> user, Timestamp |-> ts, Data |-> data]

EventRecords ==
    {Rec(id, "event", n, u, ts, EmptyMap) :
        id \in RecordIDs, n \in EventNames, u \in {S1, S2}, ts \in Timestamps}
\* Customer 1 is sent every attribute value, customer 2 one of them.
AttrRecords ==
    {Rec("a", "attributes", "", S1, ts, d) : ts \in Timestamps, d \in DataInputs}
      \cup {Rec("a", "attributes", "", S2, ts, Color("red")) : ts \in Timestamps}
\* Records whose userId does not parse, one whose kind is neither "event" nor
\* "attributes", one whose userId is a second spelling of customer 1, one
\* that sets another attribute key, and one event of another name.
OtherRecords ==
    { Rec("e1", "event", "open", SBad, 20, EmptyMap),
      Rec("a", "attributes", "", SBad, 20, Color("red")),
      Rec("e2", "page", "open", S1, 20, Color("red")),
      Rec("a", "attributes", "", S01, 10, Color("red")),
      Rec("a", "attributes", "", S1, 10, [k \in {"size"} |-> "L"]),
      Rec("e2", "event", "click", S1, 5, EmptyMap) }
Records == EventRecords \cup AttrRecords \cup OtherRecords

\* ------------------------------------------------------------------ helpers
Put(m, k, v) == [x \in (DOMAIN m) \cup {k} |-> IF x = k THEN v ELSE m[x]]
Remove(m, k) == [x \in (DOMAIN m) \ {k} |-> m[x]]
\* for k, v := range src { dst[k] = v }
SetAll(dst, src) ==
    [x \in (DOMAIN dst) \cup (DOMAIN src) |-> IF x \in DOMAIN src THEN src[x] ELSE dst[x]]

Digits == {"0", "1", "2", "3", "4", "5", "6", "7", "8", "9"}
DigitVal(c) ==
    CASE c = "0" -> 0 [] c = "1" -> 1 [] c = "2" -> 2 [] c = "3" -> 3 [] c = "4" -> 4
      [] c = "5" -> 5 [] c = "6" -> 6 [] c = "7" -> 7 [] c = "8" -> 8 [] c = "9" -> 9

RECURSIVE ParseDigits(_, _)
ParseDigits(s, acc) ==
    IF s = <<>> THEN acc ELSE ParseDigits(Tail(s), acc * 10 + DigitVal(Head(s)))

\* strconv.Atoi: an optional sign followed by at least one decimal digit.
Atoi(s) ==
    LET signed == s # <<>> /\ Head(s) \in {"+", "-"}
        body == IF signed THEN Tail(s) ELSE s
    IN  IF body = <<>> \/ \E i \in 1..Len(body) : body[i] \notin Digits
        THEN [val |-> 0, err |-> TRUE]
        ELSE [val |-> IF signed /\ Head(s) = "-" THEN 0 - ParseDigits(body, 0)
                      ELSE ParseDigits(body, 0),
              err |-> FALSE]

\* ------------------------------------------------------------------ datastore
\* A Datastore value; the variables customers, customerLinks and
\* processedEventsMap are the fields of the one store New builds.
DS(c, l, p) == [customers |-> c, customerLinks |-> l, processedEventsMap |-> p]
store == DS(customers, customerLinks, processedEventsMap)
EmptyStore == DS(<<>>, EmptyMap, {})

Customer(id, attrs, events, ts) ==
    [ID |-> id, Attributes |-> attrs, Events |-> events, LastUpdated |-> ts]

\* isUserRegistered that reports an unparseable id as not registered, without
\* an error.
isUserRegisteredNoError(ds, customerId) ==
    LET a == Atoi(customerId)
    IN  [exists |-> ~a.err /\ a.val \in DOMAIN ds.customerLinks, err |-> FALSE]

isUserRegistered(ds, customerId) ==
    LET a == Atoi(customerId)
    IN  IF a.err THEN [exists |-> FALSE, err |-> TRUE]
        ELSE [exists |-> a.val \in DOMAIN ds.customerLinks, err |-> FALSE]

\* registerCustomerFromRecord that leaves LastUpdated at the zero value.
registerCustomerFromRecordAtZero(ds, record) ==
    LET a == Atoi(record.UserID)
        newCustomer == Customer(a.val, EmptyMap, EmptyMap, 0)
    IN  IF a.err THEN ds
        ELSE [ds EXCEPT !.customers = Append(@, newCustomer),
                        !.customerLinks = Put(@, a.val, Len(ds.customers))]

registerCustomerFromRecord(ds, record) ==
    LET a == Atoi(record.UserID)
        newCustomer == Customer(a.val, EmptyMap, EmptyMap, record.Timestamp)
    IN  IF a.err THEN ds
        ELSE [ds EXCEPT !.customers = Append(@, newCustomer),
                        !.customerLinks = Put(@, a.val, Len(ds.customers))]

registerCustomer(ds, id, attributes, now) ==
    LET newCustomer == Customer(id, SetAll(EmptyMap, attributes), EmptyMap, now)
    IN  [ds EXCEPT !.customers = Append(@, newCustomer),
                   !.customerLinks = Put(@, id, Len(ds.customers))]

\* processEvent without the processed-events test.
processEventAgain(customer, record, processed) ==
    [customer |->
        [customer EXCEPT !.Events =
            IF record.Name \notin DOMAIN @ THEN Put(@, record.Name, 1)
            ELSE Put(@, record.Name, @[record.Name] + 1)],
     returned |-> FALSE]

\* processEvent that drops an event older than the customer's lastUpdated.
processEventIfNewer(customer, record, processed) ==
    IF record.ID \in processed
    THEN [customer |-> customer, returned |-> TRUE]
    ELSE [customer |->
            [customer EXCEPT !.Events =
                IF record.Timestamp < customer.LastUpdated THEN @
                ELSE IF record.Name \notin DOMAIN @ THEN Put(@, record.Name, 1)
                ELSE Put(@, record.Name, @[record.Name] + 1)],
          returned |-> FALSE]

\* The dispatch on record.Type applied to one customer: what the switch does to
\* the customer, and whether the function returns from inside the switch.
processEvent(customer, record, processed) ==
    IF record.ID \in processed
    THEN [customer |-> customer, returned |-> TRUE]
    ELSE [customer |->
            [customer EXCEPT !.Events =
                IF record.Name \notin DOMAIN @ THEN Put(@, record.Name, 1)
                ELSE Put(@, record.Name, @[record.Name] + 1)],
          returned |-> FALSE]

\* processAttributes without the timestamp test.
processAttributesAlways(customer, record) ==
    [customer EXCEPT !.Attributes = SetAll(@, record.Data)]

\* processAttributes that drops a record as old as the customer's lastUpdated.
processAttributesStrict(customer, record) ==
    IF record.Timestamp > customer.LastUpdated
    THEN [customer EXCEPT !.Attributes = SetAll(@, record.Data)]
    ELSE customer

processAttributes(customer, record) ==
    IF record.Timestamp >= customer.LastUpdated
    THEN [customer EXCEPT !.Attributes = SetAll(@, record.Data)]
    ELSE customer

\* raiseLastUpdated that never raises.
raiseLastUpdatedNever(customer, record) == customer

\* raiseLastUpdated that assigns the record's timestamp whatever it is.
raiseLastUpdatedToRecord(customer, record) ==
    [customer EXCEPT !.LastUpdated = record.Timestamp]

raiseLastUpdated(customer, record) ==
    IF customer.LastUpdated < record.Timestamp
    THEN [customer EXCEPT !.LastUpdated = record.Timestamp]
    ELSE customer

\* processRecord: [ds, err, panic].  A missing map key reads as position 0.
processRecord(ds, record) ==
    LET a == Atoi(record.UserID)
        pos == IF a.val \in DOMAIN ds.customerLinks THEN ds.customerLinks[a.val] ELSE 0
        customer == ds.customers[pos + 1]
        ev == processEvent(customer, record, ds.processedEventsMap)
        switched == CASE record.Type = "event" -> ev.customer
                      [] record.Type = "attributes" -> processAttributes(customer, record)
                      [] OTHER -> customer
        returned == record.Type = "event" /\ ev.returned
        marked == IF record.Type = "event" /\ ~ev.returned
                  THEN ds.processedEventsMap \cup {record.ID}
                  ELSE ds.processedEventsMap
        after == IF returned THEN switched ELSE raiseLastUpdated(switched, record)
    IN  IF a.err THEN [ds |-> ds, err |-> TRUE, panic |-> FALSE]
        ELSE IF pos >= Len(ds.customers) THEN [ds |-> ds, err |-> FALSE, panic |-> TRUE]
        ELSE [ds |-> [ds EXCEPT !.customers[pos + 1] = after,
                                !.processedEventsMap = marked],
              err |-> FALSE, panic |-> FALSE]

\* NewLoop that returns the error of isUserRegistered instead of continuing.
NewLoopAbort(ds, record) ==
    LET reg == isUserRegistered(ds, record.UserID)
        ds1 == IF reg.exists THEN ds ELSE registerCustomerFromRecord(ds, record)
        pr == processRecord(ds1, record)
    IN  IF reg.err THEN [ds |-> ds, skipped |-> FALSE, failed |-> TRUE]
        ELSE [ds |-> pr.ds, skipped |-> FALSE, failed |-> pr.err \/ pr.panic]

\* One iteration of the loop of New over the record the channel yields:
\* [ds, skipped, failed].
NewLoop(ds, record) ==
    LET reg == isUserRegistered(ds, record.UserID)
        ds1 == IF reg.exists THEN ds ELSE registerCustomerFromRecord(ds, record)
        pr == processRecord(ds1, record)
    IN  IF reg.err THEN [ds |-> ds, skipped |-> TRUE, failed |-> FALSE]
        ELSE [ds |-> pr.ds, skipped |-> FALSE, failed |-> pr.err \/ pr.panic]

\* New run over a whole input: the Registry it returns.
RECURSIVE NewAll(_, _)
NewAll(ds, input) ==
    IF input = <<>> THEN ds ELSE NewAll(NewLoop(ds, Head(input)).ds, Tail(input))

\* fixLinks: the two cursors walk inward while i < j.
RECURSIVE fixLinksLoop(_, _, _, _)
fixLinksLoop(cs, links, i, j) ==
    IF i < j
    THEN fixLinksLoop(cs, Put(Put(links, cs[i + 1].ID, i), cs[j + 1].ID, j), i + 1, j - 1)
    ELSE links

\* fixLinks that also visits the middle position of an odd-length storage.
fixLinksWithMiddle(ds) ==
    LET n == Len(ds.customers)
        mid == (n - 1) \div 2
        links == fixLinksLoop(ds.customers, ds.customerLinks, 0, n - 1)
    IN  [ds EXCEPT !.customerLinks =
            IF n % 2 = 1 THEN Put(links, ds.customers[mid + 1].ID, mid) ELSE links]

fixLinks(ds) ==
    [ds EXCEPT !.customerLinks = fixLinksLoop(ds.customers, @, 0, Len(ds.customers) - 1)]

NoCustomer == Customer(0, EmptyMap, EmptyMap, 0)

\* The CRUD methods: [ds, res, ret].  res is "ok", the error returned, or
\* "panic" when an index is out of range; ds is the store the call leaves.
Get(ds, id) ==
    IF id \notin DOMAIN ds.customerLinks
    THEN [ds |-> ds, res |-> "NotFound", ret |-> NoCustomer]
    ELSE LET pos == ds.customerLinks[id]
         IN  IF pos >= Len(ds.customers)
             THEN [ds |-> ds, res |-> "panic", ret |-> NoCustomer]
             ELSE [ds |-> ds, res |-> "ok", ret |-> ds.customers[pos + 1]]

List(ds) == ds.customers

TotalCustomers(ds) == Len(ds.customers)

Create(ds, id, attributes, now) ==
    IF id \in DOMAIN ds.customerLinks
    THEN [ds |-> ds, res |-> "AlreadyExists", ret |-> NoCustomer]
    ELSE LET ds1 == registerCustomer(ds, id, attributes, now)
         IN  [ds |-> ds1, res |-> "ok", ret |-> ds1.customers[Len(ds1.customers)]]

Update(ds, id, attributes, now) ==
    IF id \notin DOMAIN ds.customerLinks
    THEN [ds |-> ds, res |-> "NotFound", ret |-> NoCustomer]
    ELSE LET pos == ds.customerLinks[id]
             customer == [ds.customers[pos + 1] EXCEPT !.Attributes = SetAll(@, attributes),
                                                       !.LastUpdated = now]
         IN  IF pos >= Len(ds.customers)
             THEN [ds |-> ds, res |-> "panic", ret |-> NoCustomer]
             ELSE [ds |-> [ds EXCEPT !.customers[pos + 1] = customer],
                   res |-> "ok", ret |-> customer]

\* Delete removes the link first; the swap panics when pos is out of range,
\* and the link stays removed.
Delete(ds, id) ==
    IF id \notin DOMAIN ds.customerLinks
    THEN [ds |-> ds, res |-> "NotFound", ret |-> NoCustomer]
    ELSE LET pos == ds.customerLinks[id]
             n == Len(ds.customers)
             unlinked == [ds EXCEPT !.customerLinks = Remove(@, id)]
             swapped == [ds.customers EXCEPT ![pos + 1] = ds.customers[n]]
         IN  IF pos >= n
             THEN [ds |-> unlinked, res |-> "panic", ret |-> NoCustomer]
             ELSE [ds |-> fixLinks([unlinked EXCEPT !.customers = SubSeq(swapped, 1, n - 1)]),
                   res |-> "ok", ret |-> NoCustomer]

NoCall == [op |-> "none", id |-> 0, attributes |-> EmptyMap, now |-> 0,
           record |-> Rec("", "", "", <<>>, 0, EmptyMap),
           res |-> "none", ret |-> NoCustomer, list |-> <<>>, total |-> 0]

\* main before it has done anything, once New is running, and once New has
\* returned a store.
MainStart == [opened |-> FALSE, streaming |-> FALSE, loaded |-> FALSE,
              cancelled |-> FALSE, cancelledAtReturn |-> FALSE]
MainInNew == [MainStart EXCEPT !.opened = TRUE, !.streaming = TRUE]
MainServing == [MainInNew EXCEPT !.loaded = TRUE]

Handlers == {1, 2}
Idle == [pc |-> "idle", op |-> "none", id |-> 0, attributes |-> EmptyMap, now |-> 0,
         pos |-> 0, res |-> "none"]
NoHandlers == [h \in Handlers |-> Idle]

\* ------------------------------------------------------------------ ingestion
Init ==
    /\ customers = <<>>
    /\ customerLinks = EmptyMap
    /\ processedEventsMap = {}
    /\ pc = "New"
    /\ ingested = <<>>
    /\ calls = 0
    /\ last = NoCall
    /\ ctx = MainInNew
    /\ handlers = NoHandlers

\* The channel yields a record and the loop body of New runs on it.
Receive(record) ==
    /\ pc = "New"
    /\ Len(ingested) < MaxRecords
    /\ LET step == NewLoop(store, record)
       IN  /\ customers' = step.ds.customers
           /\ customerLinks' = step.ds.customerLinks
           /\ processedEventsMap' = step.ds.processedEventsMap
           /\ pc' = IF step.failed THEN "Failed" ELSE "New"
           /\ last' = [NoCall EXCEPT !.op = "Receive", !.record = record,
                                     !.res = IF step.failed THEN "error"
                                             ELSE IF step.skipped THEN "skipped" ELSE "ok"]
    /\ ingested' = Append(ingested, record)
    /\ UNCHANGED <<calls, ctx, handlers>>

\* The channel is closed: New returns the store.
NewReturn ==
    /\ pc = "New"
    /\ pc' = "Serve"
    /\ last' = [NoCall EXCEPT !.op = "NewReturn", !.res = "ok"]
    /\ UNCHANGED <<customers, customerLinks, processedEventsMap, ingested, calls,
                   ctx, handlers>>

Next ==
    \/ \E record \in Records : Receive(record)
    \/ NewReturn

\* datastore.New: the ingestion phase, from the empty store to its return.
Spec == Init /\ [][Next]_vars

\* The record source closes its channel at some point: the range loop of New
\* ends and New returns.
SpecClosing == Spec /\ WF_vars(NewReturn)

\* ------------------------------------------------------------------ serving
IDs == {1, 2}
AttributeInputs == {EmptyMap, Color("red")}
\* time.Now().Unix() as the calls read it.
Clock == {5, 20}

ServeRecords ==
    { Rec("a", "attributes", "", S1, 10, Color("blue")),
      Rec("e1", "event", "open", S2, 20, EmptyMap) }
ServeInputs ==
    UNION {[1..n -> ServeRecords] : n \in 0..MaxServeInput}

\* The Registry as New returned it for one of the inputs.
InitServe ==
    \E input \in ServeInputs :
        LET ds == NewAll(EmptyStore, input)
        IN  /\ customers = ds.customers
            /\ customerLinks = ds.customerLinks
            /\ processedEventsMap = ds.processedEventsMap
            /\ pc = "Serve"
            /\ ingested = input
            /\ calls = 0
            /\ last = [NoCall EXCEPT !.op = "NewReturn", !.res = "ok"]
            /\ ctx = MainServing
            /\ handlers = NoHandlers

\* A request handler's call: the whole method runs, then the result is kept.
\* A call that panics ends there, keeping what it had written; net/http
\* recovers a panic of a handler, so the server goes on serving that store.
Called(call, out) ==
    /\ customers' = out.ds.customers
    /\ customerLinks' = out.ds.customerLinks
    /\ processedEventsMap' = out.ds.processedEventsMap
    /\ last' = [call EXCEPT !.res = out.res, !.ret = out.ret]
    /\ calls' = calls + 1
    /\ UNCHANGED <<pc, ingested, ctx, handlers>>

CanCall == pc = "Serve" /\ calls < MaxCalls

CallGet(id) ==
    /\ CanCall
    /\ Called([NoCall EXCEPT !.op = "Get", !.id = id], Get(store, id))

CallList ==
    /\ CanCall
    /\ Called([NoCall EXCEPT !.op = "List", !.list = List(store)],
              [ds |-> store, res |-> "ok", ret |-> NoCustomer])

CallTotalCustomers ==
    /\ CanCall
    /\ Called([NoCall EXCEPT !.op = "TotalCustomers", !.total = TotalCustomers(store)],
              [ds |-> store, res |-> "ok", ret |-> NoCustomer])

CallCreate(id, attributes, now) ==
    /\ CanCall
    /\ Called([NoCall EXCEPT !.op = "Create", !.id = id, !.attributes = attributes, !.now = now],
              Create(store, id, attributes, now))

CallUpdate(id, attributes, now) ==
    /\ CanCall
    /\ Called([NoCall EXCEPT !.op = "Update", !.id = id, !.attributes = attributes, !.now = now],
              Update(store, id, attributes, now))

CallDelete(id) ==
    /\ CanCall
    /\ Called([NoCall EXCEPT !.op = "Delete", !.id = id], Delete(store, id))

NextServe ==
    \/ \E id \in IDs : CallGet(id)
    \/ CallList
    \/ CallTotalCustomers
    \/ \E id \in IDs, attributes \in AttributeInputs, now \in Clock :
           CallCreate(id, attributes, now)
    \/ \E id \in IDs, attributes \in AttributeInputs, now \in Clock :
           CallUpdate(id, attributes, now)
    \/ \E id \in IDs : CallDelete(id)

\* The serving phase: CRUD calls on the Registry New returned.
SpecServe == InitServe /\ [][NextServe]_vars

\* ------------------------------------------------------------------ concurrent serving
\* The methods take no lock, and the serving layer runs one handler per request
\* in parallel.  Each handler runs its call one statement at a time, and the
\* statements of the handlers interleave; Update's writes through the customer
\* pointer and the loop of fixLinks are taken as one step each.
WriteCalls ==
    {[Idle EXCEPT !.op = "Create", !.id = id, !.attributes = a, !.now = now] :
        id \in IDs, a \in AttributeInputs, now \in Clock}
      \cup {[Idle EXCEPT !.op = "Update", !.id = id, !.attributes = a, !.now = now] :
                id \in IDs, a \in AttributeInputs, now \in Clock}
      \cup {[Idle EXCEPT !.op = "Delete", !.id = id] : id \in IDs}

At(h, where) == pc = "Serve" /\ handlers[h].pc = where
Goto(h, where) == handlers' = [handlers EXCEPT ![h].pc = where]
Return(h, res) == handlers' = [handlers EXCEPT ![h].pc = "done", ![h].res = res]
HandlerFrame == UNCHANGED <<processedEventsMap, pc, ingested, calls, last, ctx>>

\* A request arrives and its handler enters the method.
Begin(h, call) ==
    /\ At(h, "idle")
    /\ handlers' = [handlers EXCEPT ![h] = [call EXCEPT !.pc = call.op]]
    /\ UNCHANGED <<customers, customerLinks>>
    /\ HandlerFrame

\* Create: the existence test.
CreateCheck(h) ==
    /\ At(h, "Create")
    /\ IF handlers[h].id \in DOMAIN customerLinks
       THEN Return(h, "AlreadyExists")
       ELSE Goto(h, "CreateAppend")
    /\ UNCHANGED <<customers, customerLinks>>
    /\ HandlerFrame

\* registerCustomer: ds.customers = append(ds.customers, newCustomer)
CreateAppend(h) ==
    /\ At(h, "CreateAppend")
    /\ customers' = Append(customers,
                           Customer(handlers[h].id, SetAll(EmptyMap, handlers[h].attributes),
                                    EmptyMap, handlers[h].now))
    /\ Goto(h, "CreateLink")
    /\ UNCHANGED customerLinks
    /\ HandlerFrame

\* registerCustomer: ds.customerLinks[id] = len(ds.customers) - 1
CreateLink(h) ==
    /\ At(h, "CreateLink")
    /\ customerLinks' = Put(customerLinks, handlers[h].id, Len(customers) - 1)
    /\ Return(h, "ok")
    /\ UNCHANGED customers
    /\ HandlerFrame

\* Update and Delete: pos, exists := ds.customerLinks[id]
Lookup(h) ==
    /\ At(h, "Update") \/ At(h, "Delete")
    /\ IF handlers[h].id \notin DOMAIN customerLinks
       THEN Return(h, "NotFound")
       ELSE handlers' = [handlers EXCEPT
                ![h].pos = customerLinks[handlers[h].id],
                ![h].pc = IF handlers[h].op = "Update" THEN "UpdateWrite" ELSE "DeleteUnlink"]
    /\ UNCHANGED <<customers, customerLinks>>
    /\ HandlerFrame

\* Update: customer := ds.customers[pos], and the writes to it.
UpdateWrite(h) ==
    /\ At(h, "UpdateWrite")
    /\ IF handlers[h].pos >= Len(customers)
       THEN Return(h, "panic") /\ UNCHANGED customers
       ELSE /\ customers' = [customers EXCEPT
                   ![handlers[h].pos + 1].Attributes = SetAll(@, handlers[h].attributes),
                   ![handlers[h].pos + 1].LastUpdated = handlers[h].now]
            /\ Return(h, "ok")
    /\ UNCHANGED customerLinks
    /\ HandlerFrame

\* Delete: delete(ds.customerLinks, id)
DeleteUnlink(h) ==
    /\ At(h, "DeleteUnlink")
    /\ customerLinks' = Remove(customerLinks, handlers[h].id)
    /\ Goto(h, "DeleteSwap")
    /\ UNCHANGED customers
    /\ HandlerFrame

\* Delete: ds.customers[pos] = ds.customers[len(ds.customers)-1]
DeleteSwap(h) ==
    /\ At(h, "DeleteSwap")
    /\ IF handlers[h].pos >= Len(customers)
       THEN Return(h, "panic") /\ UNCHANGED customers
       ELSE /\ customers' = [customers EXCEPT ![handlers[h].pos + 1] = customers[Len(customers)]]
            /\ Goto(h, "DeleteTruncate")
    /\ UNCHANGED customerLinks
    /\ HandlerFrame

\* Delete: ds.customers = ds.customers[:len(ds.customers)-1]
DeleteTruncate(h) ==
    /\ At(h, "DeleteTruncate")
    /\ IF Len(customers) = 0
       THEN Return(h, "panic") /\ UNCHANGED customers
       ELSE /\ customers' = SubSeq(customers, 1, Len(customers) - 1)
            /\ Goto(h, "DeleteFix")
    /\ UNCHANGED customerLinks
    /\ HandlerFrame

\* Delete: return fixLinks(ds)
DeleteFix(h) ==
    /\ At(h, "DeleteFix")
    /\ customerLinks' = fixLinks(store).customerLinks
    /\ Return(h, "ok")
    /\ UNCHANGED customers
    /\ HandlerFrame

NextConcurrent ==
    \/ \E h \in Handlers, call \in WriteCalls : Begin(h, call)
    \/ \E h \in Handlers : CreateCheck(h)
    \/ \E h \in Handlers : CreateAppend(h)
    \/ \E h \in Handlers : CreateLink(h)
    \/ \E h \in Handlers : Lookup(h)
    \/ \E h \in Handlers : UpdateWrite(h)
    \/ \E h \in Handlers : DeleteUnlink(h)
    \/ \E h \in Handlers : DeleteSwap(h)
    \/ \E h \in Handlers : DeleteTruncate(h)
    \/ \E h \in Handlers : DeleteFix(h)

\* The serving phase with two requests in flight.
SpecConcurrent == InitServe /\ [][NextConcurrent]_vars

\* ------------------------------------------------------------------ main
InitMain ==
    /\ customers = <<>>
    /\ customerLinks = EmptyMap
    /\ processedEventsMap = {}
    /\ pc = "Start"
    /\ ingested = <<>>
    /\ calls = 0
    /\ last = NoCall
    /\ ctx = MainStart
    /\ handlers = NoHandlers

MainFrame ==
    UNCHANGED <<customers, customerLinks, processedEventsMap, ingested, calls, last, handlers>>

\* SIGINT or SIGTERM arrives and the signal goroutine cancels the context.
Cancel ==
    /\ pc # "Exit"
    /\ ~ctx.cancelled
    /\ ctx' = [ctx EXCEPT !.cancelled = TRUE]
    /\ UNCHANGED pc
    /\ MainFrame

\* os.OpenFile: on an error log.Fatal ends the process.
MainOpenFile(ok) ==
    /\ pc = "Start"
    /\ pc' = IF ok THEN "Opened" ELSE "Exit"
    /\ ctx' = [ctx EXCEPT !.opened = ok]
    /\ MainFrame

\* stream.Process: a channel, or an error that is only logged.
MainProcess(ok) ==
    /\ pc = "Opened"
    /\ pc' = IF ok THEN "New" ELSE "NoStore"
    /\ ctx' = [ctx EXCEPT !.streaming = ok]
    /\ MainFrame

\* The loop of New on a record of the data source.
MainReceive(record) ==
    /\ Len(ingested) < MaxServeInput
    /\ Receive(record)

\* The channel is closed, on exhaustion or on cancellation: New returns.
MainNewReturn ==
    /\ pc = "New"
    /\ pc' = "Returned"
    /\ ctx' = [ctx EXCEPT !.loaded = TRUE, !.cancelledAtReturn = ctx.cancelled]
    /\ last' = [NoCall EXCEPT !.op = "NewReturn", !.res = "ok"]
    /\ UNCHANGED <<customers, customerLinks, processedEventsMap, ingested, calls, handlers>>

\* MainCheck that does not look at the context.
MainCheckNoCtx ==
    /\ pc \in {"Returned", "Failed"}
    /\ pc' = IF pc = "Failed" THEN "Exit" ELSE "Serve"
    /\ UNCHANGED ctx
    /\ MainFrame

\* After New: log.Fatalf on its error, log.Fatal on a cancelled context,
\* otherwise serve.ListenAndServe with the store.
MainCheck ==
    /\ pc \in {"Returned", "Failed"}
    /\ pc' = IF pc = "Failed" \/ ctx.cancelled THEN "Exit" ELSE "Serve"
    /\ UNCHANGED ctx
    /\ MainFrame

\* ds == nil: log.Fatal ends the process.
MainNilStore ==
    /\ pc = "NoStore"
    /\ pc' = "Exit"
    /\ UNCHANGED ctx
    /\ MainFrame

NextMain ==
    \/ Cancel
    \/ \E ok \in BOOLEAN : MainOpenFile(ok)
    \/ \E ok \in BOOLEAN : MainProcess(ok)
    \/ \E record \in ServeRecords : MainReceive(record)
    \/ MainNewReturn
    \/ MainCheck
    \/ MainNilStore
    \/ \E id \in IDs : CallGet(id)
    \/ CallList
    \/ CallTotalCustomers
    \/ \E id \in IDs, attributes \in AttributeInputs, now \in Clock :
           CallCreate(id, attributes, now)
    \/ \E id \in IDs, attributes \in AttributeInputs, now \in Clock :
           CallUpdate(id, attributes, now)
    \/ \E id \in IDs : CallDelete(id)

\* The process: main from its start to the serving phase or the exit.
SpecMain == InitMain /\ [][NextMain]_vars

\* ------------------------------------------------------------------ deleting
CustomerIDs == 1..MaxCustomers

\* The Registry after Create was called with each of the ids, in order.
RECURSIVE Registry(_)
Registry(ids) ==
    IF ids = <<>> THEN EmptyStore
    ELSE Create(Registry(SubSeq(ids, 1, Len(ids) - 1)), ids[Len(ids)], EmptyMap, 5).ds

CreateOrders ==
    {ids \in UNION {[1..n -> CustomerIDs] : n \in 1..MaxCustomers} :
        \A i, j \in 1..Len(ids) : ids[i] = ids[j] => i = j}

\* A Registry of up to MaxCustomers customers created in any order.
InitDelete ==
    \E ids \in CreateOrders :
        LET ds == Registry(ids)
        IN  /\ customers = ds.customers
            /\ customerLinks = ds.customerLinks
            /\ processedEventsMap = ds.processedEventsMap
            /\ pc = "Serve"
            /\ ingested = <<>>
            /\ calls = 0
            /\ last = [NoCall EXCEPT !.op = "NewReturn", !.res = "ok"]
            /\ ctx = MainServing
            /\ handlers = NoHandlers

NextDelete == \E id \in CustomerIDs : CallDelete(id)

\* Delete calls on such a Registry.
SpecDelete == InitDelete /\ [][NextDelete]_vars

\* ------------------------------------------------------------------ properties
StoredAt(id) == {i \in 1..Len(customers) : customers[i].ID = id}
IsStored(id) == StoredAt(id) # {}

\* C1 (index invariant I1): every stored customer's id is linked to the
\* customer's current position, and the index has no entry for an id that is
\* not stored.
IndexInvariant ==
    /\ \A i \in 1..Len(customers) :
          /\ customers[i].ID \in DOMAIN customerLinks
          /\ customerLinks[customers[i].ID] = i - 1
    /\ \A id \in DOMAIN customerLinks : IsStored(id)

\* C2 (id uniqueness I2): no two customers of the storage have the same id.
UniqueIDs ==
    \A i, j \in 1..Len(customers) : customers[i].ID = customers[j].ID => i = j

\* C3: Get(id) returns NotFound exactly when no customer with that id is
\* stored; otherwise it returns a stored customer whose ID is id, and it never
\* indexes the storage out of range.
GetReturnsTheCustomer ==
    last.op = "Get" =>
        /\ last.res # "panic"
        /\ (last.res = "NotFound") <=> ~IsStored(last.id)
        /\ last.res = "ok" =>
              /\ last.ret.ID = last.id
              /\ \E i \in StoredAt(last.id) : customers[i] = last.ret

\* ---- ingestion
Parseable(record) == ~Atoi(record.UserID).err
UserOf(record) == Atoi(record.UserID).val

\* input[j] is an event record carrying the recordId of an earlier event
\* record that was applied (one whose userId parsed).
IsRedelivery(input, j) ==
    /\ input[j].Type = "event"
    /\ \E i \in 1..(j - 1) :
          /\ input[i].Type = "event"
          /\ input[i].ID = input[j].ID
          /\ Parseable(input[i])

RECURSIVE WithoutRedeliveries(_, _)
WithoutRedeliveries(input, n) ==
    IF n = 0 THEN <<>>
    ELSE IF IsRedelivery(input, n) THEN WithoutRedeliveries(input, n - 1)
    ELSE Append(WithoutRedeliveries(input, n - 1), input[n])

\* The positive event counts of a store, as <<customer id, event name, count>>.
EventCounts(ds) ==
    UNION {{<<ds.customers[i].ID, n, ds.customers[i].Events[n]>> :
                n \in DOMAIN ds.customers[i].Events} : i \in 1..Len(ds.customers)}

\* C4 (event idempotence I3): an event record carrying a recordId that was
\* already applied leaves every event count of every customer unchanged, and
\* the event counts after any input equal those after the same input with the
\* re-deliveries removed.
EventIdempotence ==
    /\ [][(last'.op = "Receive" /\ IsRedelivery(ingested', Len(ingested')))
            => EventCounts(DS(customers', customerLinks', processedEventsMap'))
                 = EventCounts(store)]_vars
    /\ [](EventCounts(store)
            = EventCounts(NewAll(EmptyStore,
                                 WithoutRedeliveries(ingested, Len(ingested)))))

\* A re-delivered event record, addressed to another customer than the first
\* delivery, has been ingested.
RedeliveryIngested ==
    /\ pc = "New"
    /\ last.op = "Receive"
    /\ last.res = "ok"
    /\ IsRedelivery(ingested, Len(ingested))
    /\ \E i \in 1..(Len(ingested) - 1) :
          /\ ingested[i].Type = "event"
          /\ ingested[i].ID = last.record.ID
          /\ Parseable(ingested[i])
          /\ UserOf(ingested[i]) # UserOf(last.record)

\* The Registry before the last n records of the input so far were ingested.
StoreBefore(n) == NewAll(EmptyStore, SubSeq(ingested, 1, Len(ingested) - n))
\* The stored customer with the given id (ids are unique during ingestion).
CustomerIn(ds, id) ==
    ds.customers[CHOOSE i \in 1..Len(ds.customers) : ds.customers[i].ID = id]
HasCustomer(ds, id) == \E i \in 1..Len(ds.customers) : ds.customers[i].ID = id

\* The last two records ingested are attribute records of one customer with
\* different timestamps.
TwoAttributeRecords ==
    /\ Len(ingested) >= 2
    /\ LET r1 == ingested[Len(ingested) - 1]
           r2 == ingested[Len(ingested)]
       IN  /\ r1.Type = "attributes" /\ r2.Type = "attributes"
           /\ Parseable(r1) /\ Parseable(r2)
           /\ UserOf(r1) = UserOf(r2)
           /\ r1.Timestamp # r2.Timestamp
Earlier ==
    LET r1 == ingested[Len(ingested) - 1]
        r2 == ingested[Len(ingested)]
    IN  IF r1.Timestamp < r2.Timestamp THEN r1 ELSE r2
Later ==
    LET r1 == ingested[Len(ingested) - 1]
        r2 == ingested[Len(ingested)]
    IN  IF r1.Timestamp < r2.Timestamp THEN r2 ELSE r1
HoldsLaterValues ==
    LET c == CustomerIn(store, UserOf(Later))
    IN  \A k \in (DOMAIN Earlier.Data) \cap (DOMAIN Later.Data) :
            k \in DOMAIN c.Attributes /\ c.Attributes[k] = Later.Data[k]

\* C5 as claimed (attribute last-writer-wins): two attribute records of one
\* customer with timestamps t1 < t2, ingested one after the other in either
\* order, leave every key both set holding the value of the t2 record.
LastWriterWins ==
    TwoAttributeRecords => HoldsLaterValues

\* The customer did not exist before the two records, or its lastUpdated was
\* at most t2.
WatermarkAtMostLater ==
    HasCustomer(StoreBefore(2), UserOf(Later))
        => CustomerIn(StoreBefore(2), UserOf(Later)).LastUpdated <= Later.Timestamp

\* C5 as amended: the same, provided the customer's lastUpdated before the two
\* records is at most t2 (or the customer does not exist yet); in the order
\* t2 then t1 the t1 record is dropped.
LastWriterWinsFromOlderWatermark ==
    (TwoAttributeRecords /\ WatermarkAtMostLater) =>
        /\ HoldsLaterValues
        /\ Later = ingested[Len(ingested) - 1] =>
              CustomerIn(store, UserOf(Later)) = CustomerIn(StoreBefore(1), UserOf(Later))

\* The t2 record was ingested first, the t1 record after it, with another
\* value for the same key.
OutOfOrderAttributesIngested ==
    /\ TwoAttributeRecords
    /\ WatermarkAtMostLater
    /\ Later = ingested[Len(ingested) - 1]
    /\ \E k \in (DOMAIN Earlier.Data) \cap (DOMAIN Later.Data) :
          Earlier.Data[k] # Later.Data[k]

\* The last two records ingested are an event record with timestamp t3 and
\* then an attribute record with timestamp t2, both of one customer that had
\* lastUpdated = t1 before them, t1 < t2 < t3.
AttributesAfterLaterEvent ==
    /\ Len(ingested) >= 2
    /\ LET e == ingested[Len(ingested) - 1]
           a == ingested[Len(ingested)]
       IN  /\ e.Type = "event" /\ a.Type = "attributes"
           /\ Parseable(e) /\ Parseable(a)
           /\ UserOf(e) = UserOf(a)
           /\ HasCustomer(StoreBefore(2), UserOf(e))
           /\ CustomerIn(StoreBefore(2), UserOf(e)).LastUpdated < a.Timestamp
           /\ a.Timestamp < e.Timestamp
\* The attribute record changed nothing of the customer.
AttributeRecordDropped ==
    LET id == UserOf(ingested[Len(ingested)])
    IN  CustomerIn(store, id) = CustomerIn(StoreBefore(1), id)

ScenarioInput ==
    << Rec("e1", "event", "open", S1, 10, EmptyMap),
       Rec("a", "attributes", "", S1, 5, Color("red")),
       Rec("a", "attributes", "", S1, 20, Color("blue")) >>
ScenarioHolds ==
    ingested = ScenarioInput =>
        customers = << Customer(1, Color("blue"), [n \in {"open"} |-> 1], 20) >>

LastUpdatedNeverDecreases ==
    [][IF Len(customers') < Len(customers)
       THEN \A i \in 1..Len(customers') : \E j \in 1..Len(customers) :
                customers'[i] = customers[j]
       ELSE \A i \in 1..Len(customers) :
                /\ customers'[i].ID = customers[i].ID
                /\ customers'[i].LastUpdated >= customers[i].LastUpdated]_vars

\* C8: Create(id, attributes) fails with AlreadyExists and changes nothing
\* when a customer with that id is stored; otherwise it appends one customer
\* with that id, the supplied attributes and no events, links id to the new
\* last position, and changes no other customer or index entry.
CreateContract ==
    [][last'.op = "Create" =>
        IF IsStored(last'.id)
        THEN /\ last'.res = "AlreadyExists"
             /\ customers' = customers
             /\ customerLinks' = customerLinks
        ELSE /\ last'.res = "ok"
             /\ Len(customers') = Len(customers) + 1
             /\ SubSeq(customers', 1, Len(customers)) = customers
             /\ customers'[Len(customers')].ID = last'.id
             /\ customers'[Len(customers')].Attributes = last'.attributes
             /\ customers'[Len(customers')].Events = EmptyMap
             /\ customerLinks' = Put(customerLinks, last'.id, Len(customers))]_vars

Occurrences(cs, c) == Cardinality({i \in 1..Len(cs) : cs[i] = c})
Range(cs) == {cs[i] : i \in 1..Len(cs)}

\* C9: Delete(id) fails with NotFound and changes nothing when no customer
\* with that id is stored; otherwise it removes exactly one customer with that
\* id: Get(id) is NotFound afterwards, every other customer is still stored
\* unchanged, and TotalCustomers has decreased by one.
DeleteContract ==
    [][last'.op = "Delete" =>
        IF ~IsStored(last'.id)
        THEN /\ last'.res = "NotFound"
             /\ customers' = customers
             /\ customerLinks' = customerLinks
        ELSE /\ last'.res = "ok"
             /\ Get(DS(customers', customerLinks', processedEventsMap'), last'.id).res
                  = "NotFound"
             /\ TotalCustomers(DS(customers', customerLinks', processedEventsMap'))
                  = TotalCustomers(store) - 1
             /\ \E p \in StoredAt(last'.id) :
                   \A c \in Range(customers) :
                       Occurrences(customers', c)
                         = Occurrences(customers, c) - (IF c = customers[p] THEN 1 ELSE 0)]_vars

\* C10 (delete/reinsert): wherever a customer with id x is stored, Delete(x)
\* and then Create(x, attrs) both succeed, and Get(x) then returns a customer
\* with exactly attrs and no events.
DeleteReinsert ==
    pc = "Serve" =>
        \A x \in IDs, attrs \in AttributeInputs, now \in Clock :
            IsStored(x) =>
                LET deleted == Delete(store, x)
                    created == Create(deleted.ds, x, attrs, now)
                    got == Get(created.ds, x)
                IN  /\ deleted.res = "ok"
                    /\ created.res = "ok"
                    /\ got.res = "ok"
                    /\ got.ret.ID = x
                    /\ got.ret.Attributes = attrs
                    /\ got.ret.Events = EmptyMap

\* C11: Update(id, attributes) fails with NotFound and changes nothing when no
\* customer with that id is stored; otherwise it overwrites the supplied keys
\* of the customer whose ID is id, keeps its other keys and its events, and
\* changes no other customer, the storage order, or the index.
UpdateContract ==
    [][last'.op = "Update" =>
        IF ~IsStored(last'.id)
        THEN /\ last'.res = "NotFound"
             /\ customers' = customers
             /\ customerLinks' = customerLinks
        ELSE /\ last'.res = "ok"
             /\ customerLinks' = customerLinks
             /\ Len(customers') = Len(customers)
             /\ \E p \in StoredAt(last'.id) :
                   /\ customers'[p].ID = last'.id
                   /\ customers'[p].Attributes
                        = SetAll(customers[p].Attributes, last'.attributes)
                   /\ customers'[p].Events = customers[p].Events
                   /\ \A q \in 1..Len(customers) :
                         q # p => customers'[q] = customers[q]]_vars

\* ---- concurrent serving
\* The call a handler made, run as a whole on a store.
Sequentially(ds, call) ==
    CASE call.op = "Create" -> Create(ds, call.id, call.attributes, call.now)
      [] call.op = "Update" -> Update(ds, call.id, call.attributes, call.now)
      [] call.op = "Delete" -> Delete(ds, call.id)

\* C12 (writes are linearized): once the concurrent calls have returned, the
\* Registry and the calls' results are those of the same calls run one after
\* the other in some order.
WritesLinearized ==
    (\A h \in Handlers : handlers[h].pc = "done") =>
        \E first \in Handlers :
            LET second == CHOOSE h \in Handlers : h # first
                r1 == Sequentially(StoreBefore(0), handlers[first])
                r2 == Sequentially(r1.ds, handlers[second])
            IN  /\ r1.res = handlers[first].res
                /\ r2.res = handlers[second].res
                /\ r2.ds = store

\* ---- main
CallOps == {"Get", "List", "TotalCustomers", "Create", "Update", "Delete"}

\* C13 (fail-fast startup and phase separation): the process serves only
\* after New has returned, the data file and the record stream were opened,
\* New returned no error and the context was not cancelled when New returned;
\* in every other case it exits without serving; no CRUD call runs before the
\* serving phase, and no record is applied in it.
FailFastStartup ==
    /\ [](pc = "Serve" =>
            /\ ctx.opened /\ ctx.streaming /\ ctx.loaded
            /\ ~ctx.cancelledAtReturn)
    /\ []((~ctx.opened /\ pc # "Start") => pc = "Exit")
    /\ []((ctx.opened /\ ~ctx.streaming /\ pc # "Opened") => pc \in {"NoStore", "Exit"})
    /\ [](ctx.cancelledAtReturn => pc \in {"Returned", "Exit"})
    /\ []((calls > 0 \/ last.op \in CallOps) => pc = "Serve")
    /\ [][(pc \in {"Serve", "Exit"}) => (pc' = pc /\ ingested' = ingested)]_vars

\* The process serves calls on a store built from records.
ServingAfterIngestion ==
    /\ pc = "Serve"
    /\ ingested # <<>>
    /\ last.op \in CallOps
    /\ ctx.cancelled

\* ---- ingestion, record by record
LastRecord == ingested[Len(ingested)]
Max(a, b) == IF a >= b THEN a ELSE b
\* The customer a record is dispatched on: the stored one, or the one created
\* for the record when its id is seen for the first time.
Dispatched(ds, record) ==
    IF HasCustomer(ds, UserOf(record)) THEN CustomerIn(ds, UserOf(record))
    ELSE Customer(UserOf(record), EmptyMap, EmptyMap, record.Timestamp)

DeleteDefect ==
    [][(last'.op = "Delete" /\ last'.res = "ok" /\ IndexInvariant) =>
          LET n == Len(customers')
              pos == customerLinks[last'.id]
          IN  (~IndexInvariant') <=> (n % 2 = 1 /\ pos = (n - 1) \div 2)]_vars

\* The first Delete on a Registry of four customers removed the second one and
\* left the index stale; another first Delete left the invariant holding.
DeletedTheMiddle ==
    /\ calls = 1
    /\ last.op = "Delete"
    /\ last.res = "ok"
    /\ Len(customers) = 3
    /\ ~IndexInvariant
    /\ customers[2].ID \in DOMAIN customerLinks
    /\ customerLinks[customers[2].ID] = 3

\* The event records of the input that count for customer id under a name:
\* those whose recordId had not been applied by an earlier record.
CountedEvents(id, name) ==
    {j \in 1..Len(ingested) :
        /\ ingested[j].Type = "event"
        /\ Parseable(ingested[j])
        /\ UserOf(ingested[j]) = id
        /\ ingested[j].Name = name
        /\ ~IsRedelivery(ingested, j)}
EventCount(customer, name) ==
    IF name \in DOMAIN customer.Events THEN customer.Events[name] ELSE 0
NamesSeen == {ingested[j].Name : j \in 1..Len(ingested)}

\* C16 (events ignore timestamps): after any input, for every customer and
\* event name, events[name] is the number of event records of the input for
\* that customer and name whose recordId had not been applied by an earlier
\* record, whatever the timestamps of the records are.
EventsIgnoreTimestamps ==
    \A i \in 1..Len(customers) :
        \A name \in NamesSeen \cup DOMAIN customers[i].Events :
            EventCount(customers[i], name)
                = Cardinality(CountedEvents(customers[i].ID, name))

\* An event record older than its customer's lastUpdated was counted.
OlderEventCounted ==
    /\ ingested # <<>>
    /\ last.op = "Receive"
    /\ LastRecord.Type = "event"
    /\ Parseable(LastRecord)
    /\ ~IsRedelivery(ingested, Len(ingested))
    /\ HasCustomer(StoreBefore(1), UserOf(LastRecord))
    /\ LastRecord.Timestamp < CustomerIn(StoreBefore(1), UserOf(LastRecord)).LastUpdated
    /\ EventCount(CustomerIn(store, UserOf(LastRecord)), LastRecord.Name)
          = EventCount(CustomerIn(StoreBefore(1), UserOf(LastRecord)), LastRecord.Name) + 1

\* C17 (attribute guard): an attribute record is applied exactly when its
\* timestamp is at least the customer's lastUpdated at the moment it is
\* processed; applied, it overwrites exactly the keys of record.data and keeps
\* every other attribute; dropped, it leaves the customer's attributes and
\* lastUpdated unchanged; either way the events are untouched and ingestion
\* goes on without error.
AttributeGuard ==
    (ingested # <<>> /\ LastRecord.Type = "attributes" /\ Parseable(LastRecord)) =>
        LET c == CustomerIn(store, UserOf(LastRecord))
            before == Dispatched(StoreBefore(1), LastRecord)
            data == LastRecord.Data
        IN  /\ pc # "Failed"
            /\ last.op = "Receive" => (last.res = "ok" /\ pc = "New")
            /\ c.Events = before.Events
            /\ IF LastRecord.Timestamp >= before.LastUpdated
               THEN /\ DOMAIN c.Attributes = DOMAIN before.Attributes \cup DOMAIN data
                    /\ \A k \in DOMAIN data : c.Attributes[k] = data[k]
                    /\ \A k \in DOMAIN before.Attributes \ DOMAIN data :
                           c.Attributes[k] = before.Attributes[k]
                    /\ c.LastUpdated = LastRecord.Timestamp
               ELSE c = before

\* An attribute record with the timestamp the customer's lastUpdated already
\* had overwrote one key and kept another.
AttributesAppliedOnEquality ==
    /\ ingested # <<>>
    /\ last.op = "Receive"
    /\ LastRecord.Type = "attributes"
    /\ Parseable(LastRecord)
    /\ HasCustomer(StoreBefore(1), UserOf(LastRecord))
    /\ LET c == CustomerIn(store, UserOf(LastRecord))
           before == CustomerIn(StoreBefore(1), UserOf(LastRecord))
       IN  /\ LastRecord.Timestamp = before.LastUpdated
           /\ \E k \in DOMAIN before.Attributes \ DOMAIN LastRecord.Data :
                  c.Attributes[k] = before.Attributes[k]
           /\ \E k \in DOMAIN before.Attributes \cap DOMAIN LastRecord.Data :
                  /\ before.Attributes[k] # LastRecord.Data[k]
                  /\ c.Attributes[k] = LastRecord.Data[k]

\* C18: a record whose userId does not parse as an integer contributes
\* nothing: processing it leaves storage, index and the set of processed
\* recordIds unchanged, New goes on with the following records, and the
\* Registry is the one the input without such records gives.
UnparseableContributesNothing ==
    /\ [][(last'.op = "Receive" /\ ~Parseable(last'.record)) =>
            /\ UNCHANGED <<customers, customerLinks, processedEventsMap>>
            /\ ingested' = Append(ingested, last'.record)
            /\ last'.res = "skipped"
            /\ pc' = "New"]_vars
    /\ [](store = NewAll(EmptyStore, SelectSeq(ingested, Parseable)))

\* After an event record with an unparseable userId, an event record with the
\* same recordId was counted for its customer.
AppliedAfterUnparseable ==
    /\ Len(ingested) >= 2
    /\ last.op = "Receive"
    /\ last.res = "ok"
    /\ ~Parseable(ingested[Len(ingested) - 1])
    /\ ingested[Len(ingested) - 1].Type = "event"
    /\ LastRecord.Type = "event"
    /\ LastRecord.ID = ingested[Len(ingested) - 1].ID
    /\ Parseable(LastRecord)
    /\ LastRecord.ID \notin StoreBefore(1).processedEventsMap
    /\ customers = StoreBefore(2).customers \o
                      << Customer(UserOf(LastRecord), EmptyMap,
                                  [n \in {LastRecord.Name} |-> 1], LastRecord.Timestamp) >>

\* The parseable userIds of the input, as the strings the records carry and
\* as the integers they parse to.
UserIDsSeen == {ingested[j].UserID : j \in {i \in 1..Len(ingested) : Parseable(ingested[i])}}
IDsSeen == {UserOf(ingested[j]) : j \in {i \in 1..Len(ingested) : Parseable(ingested[i])}}
StoredIDs == {customers[i].ID : i \in 1..Len(customers)}
\* What the dispatch makes of a customer just created for the last record.
CreatedForLastRecord ==
    Customer(UserOf(LastRecord),
             IF LastRecord.Type = "attributes" THEN LastRecord.Data ELSE EmptyMap,
             IF LastRecord.Type = "event" /\ ~IsRedelivery(ingested, Len(ingested))
             THEN [n \in {LastRecord.Name} |-> 1] ELSE EmptyMap,
             LastRecord.Timestamp)
\* No step of ingestion removes or moves a customer.
NeverDeletes ==
    /\ Len(customers') >= Len(customers)
    /\ \A i \in 1..Len(customers) : customers'[i].ID = customers[i].ID

\* C19 as claimed (ingestion creates and never deletes): the first record with
\* a given parseable userId, of any kind, creates a customer with lastUpdated
\* = its timestamp, empty attributes and empty events before it is dispatched;
\* the customer count never decreases; the Registry holds exactly one customer
\* per distinct parseable userId seen, with the index invariant holding.
IngestionCreatesPerUserID ==
    /\ [][NeverDeletes]_vars
    /\ [](IndexInvariant /\ UniqueIDs)
    /\ [](Len(customers) = Cardinality(UserIDsSeen))
    /\ []((/\ ingested # <<>>
           /\ Parseable(LastRecord)
           /\ \A j \in 1..(Len(ingested) - 1) : ingested[j].UserID # LastRecord.UserID)
            => customers = Append(StoreBefore(1).customers, CreatedForLastRecord))

\* C19 as amended: the same per distinct integer the parseable userIds parse
\* to; the first record whose userId parses to a given integer creates the
\* customer, and a later record whose userId is another spelling of that
\* integer is dispatched on the same customer.
IngestionCreatesPerID ==
    /\ [][NeverDeletes]_vars
    /\ [](IndexInvariant /\ UniqueIDs)
    /\ [](StoredIDs = IDsSeen /\ Len(customers) = Cardinality(IDsSeen))
    /\ []((ingested # <<>> /\ Parseable(LastRecord)) =>
            IF HasCustomer(StoreBefore(1), UserOf(LastRecord))
            THEN Len(customers) = Len(StoreBefore(1).customers)
            ELSE customers = Append(StoreBefore(1).customers, CreatedForLastRecord))

\* New returned a Registry of two customers after three records: the second
\* customer was created by an event record skipped as a duplicate recordId,
\* and the third record spelled the first customer's id differently.
CreatedByDuplicateAndRespelled ==
    /\ pc = "Serve"
    /\ Len(ingested) = 3
    /\ Len(customers) = 2
    /\ IsRedelivery(ingested, 2)
    /\ Parseable(ingested[2])
    /\ customers[2] = Customer(UserOf(ingested[2]), EmptyMap, EmptyMap, ingested[2].Timestamp)
    /\ Parseable(ingested[3])
    /\ UserOf(ingested[3]) = UserOf(ingested[1])
    /\ ingested[3].UserID # ingested[1].UserID

\* C20 (ingestion runs to exhaustion and never aborts): once the source
\* closes its channel New returns; it has applied every record it was given
\* once, in the order given; and on every input, with malformed userIds,
\* duplicate recordIds and unknown kinds, it returns a Registry and no error.
RunsToExhaustion ==
    /\ <>(pc = "Serve")
    /\ [](pc # "Failed")
    /\ [](last.res \notin {"error", "panic"})
    /\ [](pc = "New" => ENABLED NewReturn)
    /\ [][last'.op = "Receive" =>
            /\ ingested' = Append(ingested, last'.record)
            /\ DS(customers', customerLinks', processedEventsMap')
                  = NewLoop(store, last'.record).ds]_vars
    /\ [][last'.op = "NewReturn" =>
            /\ pc' = "Serve"
            /\ last'.res = "ok"
            /\ UNCHANGED <<customers, customerLinks, processedEventsMap, ingested>>]_vars
    /\ [](store = NewAll(EmptyStore, ingested))

\* New returned after an input with a malformed userId, an unknown kind and
\* an event record that followed the malformed record with its recordId.
ReturnedAfterMalformedInput ==
    /\ pc = "Serve"
    /\ last.op = "NewReturn"
    /\ Len(ingested) = 3
    /\ \E i, j, k \in 1..3 :
          /\ ~Parseable(ingested[i])
          /\ ingested[i].Type = "event"
          /\ ingested[j].Type \notin {"event", "attributes"}
          /\ i < k
          /\ ingested[k].Type = "event"
          /\ ingested[k].ID = ingested[i].ID
          /\ Parseable(ingested[k])

====
